---- MODULE Spec2Model ----
(***************************************************************************)
(* DeepRead AI (src/index.tsx): the document analysis workflow of the App *)
(* component.  The state is the four useState cells of App, the closures  *)
(* of the handleFileSelect calls in flight, and the effects the program   *)
(* has on its surroundings (alert boxes, downloads, print dialogs).       *)
(* Client construction (new GoogleGenAI) is taken to succeed: its code is *)
(* outside this repository.                                               *)
(***************************************************************************)
EXTENDS Integers, Sequences, FiniteSets

\* ---------------------------------------------------------------- bounds
MaxSubmissions == 2   \* handleFileSelect calls in one run
MaxAlerts == 1        \* alert boxes in one run
MaxPrints == 1        \* print dialogs in one run

\* ------------------------------------------------------------ JS values
JNull == [t |-> "null"]
JUndef == [t |-> "undefined"]
JNum == [t |-> "number"]
JStr(s) == [t |-> "string", v |-> s]

\* JavaScript falsiness, as used by `||`, `!x` and `{error && ...}`.
Falsy(x) == x.t \in {"null", "undefined"} \/ (x.t = "string" /\ x.v = "")

\* a || b
OrElse(a, b) == IF Falsy(a) THEN b ELSE a

\* ------------------------------------------------------------ file names
\* String.prototype.endsWith on a sequence of characters.
EndsWith(s, suffix) ==
  /\ Len(s) >= Len(suffix)
  /\ SubSeq(s, Len(s) - Len(suffix) + 1, Len(s)) = suffix

DotMd == <<".", "m", "d">>
DotMarkdown == <<".", "m", "a", "r", "k", "d", "o", "w", "n">>
DotPdf == <<".", "p", "d", "f">>

FileNames ==
  { <<"n", ".", "m", "d">>,
    <<"n", ".", "m", "a", "r", "k", "d", "o", "w", "n">>,
    <<"n", ".", "p", "d", "f">>,
    <<"n", ".", "t", "x", "t">>,
    <<"n", "m", "d">> }

FileTypes == {"", "text/markdown", "text/plain", "application/pdf", "text/x-markdown"}

Files == [name : FileNames, type : FileTypes]

NoFile == [name |-> <<>>, type |-> ""]

\* -------------------------------------------------------------- validator
validTypes == {"text/markdown", "text/plain", "application/pdf"}

\* isMd without the '.markdown' alternative.
isMd_noMarkdown(file) == EndsWith(file.name, DotMd)

isMd(file) == EndsWith(file.name, DotMd) \/ EndsWith(file.name, DotMarkdown)

isPdf(file) == file.type = "application/pdf" \/ EndsWith(file.name, DotPdf)

\* The condition of validateAndProcess under which onFileSelect is called.
Accepts(file) == isMd(file) \/ isPdf(file) \/ file.type \in validTypes

AlertText == "Please upload a PDF or Markdown file."

\* ---------------------------------------------------- media type resolution
\* file.type || (file.name.endsWith('.md') ? 'text/plain' : 'application/pdf')
mimeTypeOf(file) ==
  IF file.type # "" THEN file.type
  ELSE IF EndsWith(file.name, DotMd) THEN "text/plain" ELSE "application/pdf"

\* inlineData.mimeType of the request's first part.
inlineMimeType(file) ==
  IF mimeTypeOf(file) = "text/markdown" THEN "text/plain" ELSE mimeTypeOf(file)

\* ------------------------------------------------------- analysis schema
\* The `required` lists of analysisSchema, as paths.
RequiredTop ==
  {"metadata", "executiveSummary", "keyConcepts", "chapterBreakdown",
   "topicStats", "fullMarkdownReport"}

RequiredSub ==
  {"metadata.title", "metadata.author", "metadata.genre", "metadata.readingTime",
   "keyConcepts[].term", "keyConcepts[].definition", "keyConcepts[].importance",
   "chapterBreakdown[].title", "chapterBreakdown[].summary", "chapterBreakdown[].insight",
   "topicStats[].topic", "topicStats[].relevance"}

RequiredPaths == RequiredTop \cup RequiredSub

\* A parsed JSON object: the required paths it has, its title and report.
Obj(fields, title, report) ==
  [t |-> "object", fields |-> fields, title |-> title, report |-> report]

TitleA == <<"M", "y", " ", " ", "B">>
TitleB == <<"Z">>

DocA == Obj(RequiredPaths, TitleA, "reportA")
DocB == Obj(RequiredPaths, TitleB, "reportB")

\* DocA without `path` (and, for a top-level field, without its sub-fields).
Without(path) ==
  Obj({p \in RequiredPaths :
         /\ p # path
         /\ ~(path = "metadata" /\ p \in {"metadata.title", "metadata.author",
                                          "metadata.genre", "metadata.readingTime"})
         /\ ~(path = "keyConcepts" /\ p \in {"keyConcepts[].term",
                                             "keyConcepts[].definition",
                                             "keyConcepts[].importance"})},
      IF path \in {"metadata", "metadata.title"} THEN <<>> ELSE TitleA,
      IF path = "fullMarkdownReport" THEN "undefined" ELSE "reportA")

\* A value has the shape of AnalysisData.
WellFormed(value) == value.t = "object" /\ RequiredPaths \subseteq value.fields

\* ------------------------------------------------------ extraction service
SyntaxError == [t |-> "SyntaxError"]

\* JSON.parse on the response texts the service is modelled to return.
JSONparse(text) ==
  CASE text = "null" -> JNull
    [] text = "42" -> JNum
    [] text = "{}" -> Obj({}, <<>>, "undefined")
    [] text = "{A}" -> DocA
    [] text = "{B}" -> DocB
    [] text = "{A-metadata}" -> Without("metadata")
    [] text = "{A-keyConcepts}" -> Without("keyConcepts")
    [] text = "{A-fullMarkdownReport}" -> Without("fullMarkdownReport")
    [] text = "{A-metadata.title}" -> Without("metadata.title")
    [] OTHER -> SyntaxError

ResponseTexts ==
  {JUndef} \cup
  {JStr(s) : s \in {"", "<html>", "null", "42", "{}", "{A}", "{B}", "{A-metadata}",
                    "{A-keyConcepts}", "{A-fullMarkdownReport}", "{A-metadata.title}"}}

\* What `await ai.models.generateContent(...)` yields: a result or a throw.
ServiceErrors == {[message |-> JStr("API error")], [message |-> JStr("")]}

Responses ==
  {[kind |-> "result", text |-> x, err |-> [message |-> JUndef]] : x \in ResponseTexts}
  \cup {[kind |-> "throw", text |-> JUndef, err |-> e] : e \in ServiceErrors}

\* reader.onerror rejects with a ProgressEvent, which has no message.
ReadError == [message |-> JUndef]

\* ------------------------------------------------------------------ state
VARIABLES
  view,        \* ViewState
  activeTab,   \* DashboardTab
  data,        \* AnalysisData | null
  error,       \* string | null
  handlers,    \* the handleFileSelect calls so far, in order
  alerts,      \* alert boxes shown
  downloads,   \* files offered for download
  prints       \* print dialogs opened

vars == <<view, activeTab, data, error, handlers, alerts, downloads, prints>>

Tabs == {"overview", "concepts", "visuals", "full-report"}

Init ==
  /\ view = "upload"
  /\ activeTab = "overview"
  /\ data = JNull
  /\ error = JNull
  /\ handlers = <<>>
  /\ alerts = 0
  /\ downloads = {}
  /\ prints = 0


\* ---------------------------------------------------------------- render
\* <FileUpload> left on screen while a file is processed.
FileUploadRendered_whileProcessing == view \in {"upload", "processing"}

\* App renders <FileUpload> (and the error banner) only in the upload view.
FileUploadRendered == view = "upload"

\* Rendering the dashboard dereferences data.metadata and, per tab, maps over
\* one of the arrays: a missing one throws and React unmounts the tree.
RenderThrows(value, tab) ==
  \/ value.t # "object"
  \/ "metadata" \notin value.fields
  \/ tab = "overview" /\ "chapterBreakdown" \notin value.fields
  \/ tab = "concepts" /\ "keyConcepts" \notin value.fields
  \/ tab = "visuals" /\ ~({"topicStats", "keyConcepts"} \subseteq value.fields)

\* The dashboard (header, tabs, print and export buttons) is on screen.
DashboardRendered ==
  /\ view = "dashboard"
  /\ ~Falsy(data)
  /\ ~RenderThrows(data, activeTab)

\* ------------------------------------------------------- handleFileSelect
InFlight(h) == h.pc \in {"reading", "calling"}

\* The closure of a call that has run to its end.
Finished(h, pc) == [h EXCEPT !.pc = pc, !.file = NoFile, !.mimeType = ""]

\* The catch block without its fallback message.
catchMessage_noFallback(err) == err.message

\* err.message || "Failed to process file."
catchMessage(err) == OrElse(err.message, JStr("Failed to process file."))

\* The catch block of handleFileSelect.
Catch(i, err) ==
  /\ error' = catchMessage(err)
  /\ view' = "upload"
  /\ handlers' = [handlers EXCEPT ![i] = Finished(@, "failed")]
  /\ UNCHANGED <<activeTab, data, alerts, downloads, prints>>

\* handleFileSelect without its setView("processing").
handleFileSelect_noProcessing(file) ==
  /\ Len(handlers) < MaxSubmissions
  /\ error' = JNull
  /\ handlers' = Append(handlers, [pc |-> "reading", file |-> file, read |-> "pending",
                                   requests |-> 0, mimeType |-> ""])
  /\ UNCHANGED <<view, activeTab, data, alerts, downloads, prints>>

\* The call up to its first await: the read of the file has begun.
handleFileSelect(file) ==
  /\ Len(handlers) < MaxSubmissions
  /\ view' = "processing"
  /\ error' = JNull
  /\ handlers' = Append(handlers, [pc |-> "reading", file |-> file, read |-> "pending",
                                   requests |-> 0, mimeType |-> ""])
  /\ UNCHANGED <<activeTab, data, alerts, downloads, prints>>

\* validateAndProcess reporting a rejection through setError as well.
validateAndProcess_setsError(file) ==
  /\ FileUploadRendered
  /\ IF Accepts(file)
     THEN handleFileSelect(file)
     ELSE /\ alerts < MaxAlerts
          /\ alerts' = alerts + 1
          /\ error' = JStr(AlertText)
          /\ UNCHANGED <<view, activeTab, data, handlers, downloads, prints>>

\* A file dropped on or chosen in the upload area.
validateAndProcess(file) ==
  /\ FileUploadRendered
  /\ IF Accepts(file)
     THEN handleFileSelect(file)
     ELSE /\ alerts < MaxAlerts
          /\ alerts' = alerts + 1
          /\ UNCHANGED <<view, activeTab, data, error, handlers, downloads, prints>>

\* reader.onload: the read resolves and the call runs on to generateContent.
ReadOk(i) ==
  /\ handlers[i].pc = "reading"
  /\ handlers' = [handlers EXCEPT ![i] =
                    [@ EXCEPT !.pc = "calling", !.read = "ok",
                              !.requests = @ + 1,
                              !.mimeType = inlineMimeType(handlers[i].file)]]
  /\ UNCHANGED <<view, activeTab, data, error, alerts, downloads, prints>>

\* reader.onerror wired to resolve: the call runs on to generateContent.
ReadFail_resolves(i) ==
  /\ handlers[i].pc = "reading"
  /\ handlers' = [handlers EXCEPT ![i] =
                    [@ EXCEPT !.pc = "calling", !.read = "failed",
                              !.requests = @ + 1,
                              !.mimeType = inlineMimeType(handlers[i].file)]]
  /\ UNCHANGED <<view, activeTab, data, error, alerts, downloads, prints>>

\* reader.onerror: the read rejects and the call runs on to its catch block.
ReadFail(i) ==
  /\ handlers[i].pc = "reading"
  /\ error' = catchMessage(ReadError)
  /\ view' = "upload"
  /\ handlers' = [handlers EXCEPT ![i] = [Finished(@, "failed") EXCEPT !.read = "failed"]]
  /\ UNCHANGED <<activeTab, data, alerts, downloads, prints>>

\* generateContent settles and the call runs to its end.
Respond(i, resp) ==
  /\ handlers[i].pc = "calling"
  /\ IF resp.kind = "throw"
       THEN Catch(i, resp.err)
     ELSE IF Falsy(resp.text)
       THEN Catch(i, [message |-> JStr("No content generated")])
     ELSE IF JSONparse(resp.text.v) = SyntaxError
       THEN Catch(i, [message |-> JStr("Unexpected token in JSON")])
     ELSE /\ data' = JSONparse(resp.text.v)
          /\ view' = "dashboard"
          /\ handlers' = [handlers EXCEPT ![i] = Finished(@, "done")]
          /\ UNCHANGED <<activeTab, error, alerts, downloads, prints>>

\* -------------------------------------------------------------- dashboard
\* The reset also calling setData(null).
Reset_clearsData ==
  /\ DashboardRendered
  /\ view' = "upload"
  /\ data' = JNull
  /\ UNCHANGED <<activeTab, error, handlers, alerts, downloads, prints>>

\* The click on the header logo.
Reset ==
  /\ DashboardRendered
  /\ view' = "upload"
  /\ UNCHANGED <<activeTab, data, error, handlers, alerts, downloads, prints>>

setActiveTab(tab) ==
  /\ DashboardRendered
  /\ tab # activeTab
  /\ activeTab' = tab
  /\ UNCHANGED <<view, data, error, handlers, alerts, downloads, prints>>

IsSpace(c) == c = " "

\* title.replace(/\s+/g, '_'): every run of white space becomes one underscore.
RECURSIVE ReplaceSpaces(_)
ReplaceSpaces(s) ==
  IF s = <<>> THEN <<>>
  ELSE IF IsSpace(Head(s))
    THEN IF Len(s) > 1 /\ IsSpace(s[2])
           THEN ReplaceSpaces(Tail(s))
           ELSE <<"_">> \o ReplaceSpaces(Tail(s))
    ELSE <<Head(s)>> \o ReplaceSpaces(Tail(s))

NotesSuffix == <<"_", "N", "o", "t", "e", "s", ".", "m", "d">>

\* The export also returning to the upload view.
handleDownload_resets ==
  /\ DashboardRendered
  /\ "metadata.title" \in data.fields
  /\ downloads' = downloads \cup
       {[filename |-> ReplaceSpaces(data.title) \o NotesSuffix, content |-> data.report]}
  /\ view' = "upload"
  /\ UNCHANGED <<activeTab, data, error, handlers, alerts, prints>>

\* The Export MD button; data.metadata.title.replace throws without a title.
handleDownload ==
  /\ DashboardRendered
  /\ ~Falsy(data)
  /\ "metadata.title" \in data.fields
  /\ downloads' = downloads \cup
       {[filename |-> ReplaceSpaces(data.title) \o NotesSuffix, content |-> data.report]}
  /\ UNCHANGED <<view, activeTab, data, error, handlers, alerts, prints>>

\* The print button: window.print().
windowPrint ==
  /\ DashboardRendered
  /\ prints < MaxPrints
  /\ prints' = prints + 1
  /\ UNCHANGED <<view, activeTab, data, error, handlers, alerts, downloads>>

\* ------------------------------------------------------------------- spec
Next ==
  \/ \E file \in Files : validateAndProcess(file)
  \/ \E i \in DOMAIN handlers : ReadOk(i)
  \/ \E i \in DOMAIN handlers : ReadFail(i)
  \/ \E i \in DOMAIN handlers, resp \in Responses : Respond(i, resp)
  \/ Reset
  \/ \E tab \in Tabs : setActiveTab(tab)
  \/ handleDownload
  \/ windowPrint

Spec == Init /\ [][Next]_vars


\* ================================================================ claims

MdFile == [name |-> <<"n", ".", "m", "d">>, type |-> ""]

C2_NoPartialInReady == view = "dashboard" => WellFormed(data)

C4_NoResultOutsideReady == view \in {"upload", "processing"} => data = JNull

\* C4 (amended): reset from the dashboard yields the upload view with no
\* error and leaves data as it was; data changes only when a submission
\* succeeds.
C4_ResetKeepsData ==
  [][/\ view = "dashboard" /\ view' = "upload" => error' = JNull /\ data' = data
     /\ data' # data => view = "processing" /\ view' = "dashboard" /\ error' = JNull
    ]_vars

C4_Witness == view = "processing" /\ data = DocA /\ error = JNull

\* C5: every failure of a submission in flight takes processing to upload
\* with a non-empty error message, issues no request, and the failed
\* submission does nothing afterwards; a submission succeeds only with a
\* response text that parses.
C5_FailureReturnsToIdle ==
  [][\A i \in DOMAIN handlers :
       /\ InFlight(handlers[i]) /\ handlers'[i].pc = "failed" =>
            /\ view = "processing" /\ view' = "upload"
            /\ error'.t = "string" /\ error'.v # ""
            /\ handlers'[i].requests = handlers[i].requests
       /\ handlers[i].pc = "failed" => handlers'[i] = handlers[i]
       /\ InFlight(handlers[i]) /\ handlers'[i].pc = "done" =>
            \E x \in ResponseTexts :
              ~Falsy(x) /\ JSONparse(x.v) # SyntaxError /\ data' = JSONparse(x.v)
    ]_vars

C5_Witness ==
  /\ view = "upload"
  /\ error = JStr("Failed to process file.")
  /\ \E i \in DOMAIN handlers : handlers[i].pc = "failed" /\ handlers[i].requests = 1

\* C6: the media type of a request in flight is application/pdf or text/plain.
C6_OnlyClosedSetTags ==
  \A i \in DOMAIN handlers :
    handlers[i].pc = "calling" => handlers[i].mimeType \in {"application/pdf", "text/plain"}

\* The part of a file name after its last dot (none without a dot).
Dots(name) == {k \in 1..Len(name) : name[k] = "."}

Extension(name) ==
  IF Dots(name) = {} THEN <<"(none)">>
  ELSE SubSeq(name, (CHOOSE k \in Dots(name) : \A j \in Dots(name) : j <= k) + 1, Len(name))

ValidateRule(file) ==
  \/ Extension(file.name) \in {<<"m", "d">>, <<"m", "a", "r", "k", "d", "o", "w", "n">>}
  \/ file.type = "application/pdf"
  \/ Extension(file.name) = <<"p", "d", "f">>
  \/ file.type \in {"text/markdown", "text/plain", "application/pdf"}

\* C7: a file is passed on to handleFileSelect exactly when its extension is
\* md or markdown, or its type is application/pdf, or its extension is pdf,
\* or its type is on the allow-list; otherwise it is rejected with an alert.
C7_ValidateRule ==
  [][\A f \in Files :
       validateAndProcess(f) =>
         /\ ValidateRule(f) <=> Len(handlers') = Len(handlers) + 1
         /\ ~ValidateRule(f) <=> alerts' = alerts + 1
    ]_vars

C7_Witness ==
  /\ alerts > 0
  /\ \E i \in DOMAIN handlers : handlers[i].file = MdFile

\* C8: at most one submission is in flight, with at most one request, and
\* only in the processing view.
C8_SingleInFlight ==
  /\ Cardinality({i \in DOMAIN handlers : InFlight(handlers[i])}) <= 1
  /\ Cardinality({i \in DOMAIN handlers : handlers[i].pc = "calling"}) <= 1
  /\ (\E i \in DOMAIN handlers : InFlight(handlers[i])) <=> view = "processing"

C8_Witness ==
  /\ Len(handlers) = 2
  /\ handlers[1].pc = "done"
  /\ handlers[2].pc = "calling"

\* C9: a tab switch, an export or a print happens only in the dashboard view
\* with a result held, and leaves view and data as they were.
C9_PresenterReadOnly ==
  [][activeTab' # activeTab \/ downloads' # downloads \/ prints' # prints =>
       /\ view = "dashboard" /\ ~Falsy(data)
       /\ view' = view
       /\ data' = data
       /\ handlers' = handlers
    ]_vars

C9_Witness ==
  /\ view = "dashboard"
  /\ activeTab = "full-report"
  /\ prints > 0
  /\ [filename |-> <<"M", "y", "_", "B">> \o NotesSuffix, content |-> "reportA"] \in downloads

\* C10: a submission has issued one request exactly when its read has
\* succeeded: none while the read is pending, none when it failed.
C10_EncodeThenExtract ==
  \A i \in DOMAIN handlers :
    /\ handlers[i].requests = (IF handlers[i].read = "ok" THEN 1 ELSE 0)
    /\ handlers[i].pc = "reading" => handlers[i].read = "pending"
    /\ handlers[i].pc \in {"calling", "done"} => handlers[i].read = "ok"

C10_Witness ==
  /\ Len(handlers) = 2
  /\ handlers[1].read = "failed"
  /\ handlers[2].read = "ok"

\* C11: a request in flight for a file whose name ends in .md or .markdown
\* carries the media type text/plain, whatever the declared type.
C11_MarkdownSentAsPlainText ==
  \A i \in DOMAIN handlers :
    handlers[i].pc = "calling" /\ isMd(handlers[i].file) =>
      handlers[i].mimeType = "text/plain"

====
